---- MODULE Spec2Model ----
(***************************************************************************)
(* Model of backend/server.js: the in-memory volunteer/event backend.      *)
(* State: the three module-level arrays users, events, notifications, the  *)
(* wall clock read by Date.now(), and the response of the request handled  *)
(* last.  One action per route handler; every handler runs to completion   *)
(* (each is a synchronous callback).                                       *)
(***************************************************************************)
EXTENDS Integers, Sequences, FiniteSets, TLC

VARIABLES users, events, notifications, now, resp, probe, inflight

vars == <<users, events, notifications, now, resp, probe, inflight>>

(***************************************************************************)
(* Bounds of the model.                                                    *)
(***************************************************************************)
MaxTime == 2
MaxEvents == 2
MaxNotifications == 2

MaxInFlight == 3

(***************************************************************************)
(* String helpers (String.prototype.split, template literals).             *)
(***************************************************************************)
CharAt(s, i) == SubSeq(s, i, i)

\* String.prototype.indexOf(sep, from), 1-based; 0 when sep does not occur.
IndexOfFrom(s, sep, from) ==
  LET hits == {j \in from..(Len(s) - Len(sep) + 1) : SubSeq(s, j, j + Len(sep) - 1) = sep}
  IN IF hits = {} THEN 0 ELSE CHOOSE j \in hits : \A k \in hits : j <= k

RECURSIVE SplitFrom(_, _, _)
SplitFrom(s, sep, from) ==
  LET j == IndexOfFrom(s, sep, from)
  IN IF j = 0 THEN <<SubSeq(s, from, Len(s))>>
     ELSE <<SubSeq(s, from, j - 1)>> \o SplitFrom(s, sep, j + Len(sep))

\* dates.split(' to ')
Split(s, sep) == SplitFrom(s, sep, 1)

Digits == <<"0", "1", "2", "3", "4", "5", "6", "7", "8", "9">>

IsDigit(c) == \E d \in 1..10 : Digits[d] = c

DigitVal(c) == (CHOOSE d \in 1..10 : Digits[d] = c) - 1

AllDigits(s) == \A i \in 1..Len(s) : IsDigit(CharAt(s, i))

RECURSIVE ToNumber(_)
ToNumber(s) ==
  IF Len(s) = 0 THEN 0
  ELSE 10 * ToNumber(SubSeq(s, 1, Len(s) - 1)) + DigitVal(CharAt(s, Len(s)))

(***************************************************************************)
(* new Date(string) for the date-only ISO form "YYYY-MM-DD" and for text   *)
(* that is no date at all; new Date(undefined) is an Invalid Date.  A Date *)
(* is modelled by its validity and its day number since 1970-01-01 (a      *)
(* date-only form is UTC midnight, so the time value is day * 86400000 and *)
(* comparing day numbers is comparing time values).  As in V8, a day of    *)
(* 1..31 beyond the month's length rolls over into the next month.         *)
(***************************************************************************)
InvalidDate == [valid |-> FALSE, day |-> 0]

IsLeapYear(y) == (y % 4 = 0 /\ y % 100 # 0) \/ y % 400 = 0

LeapsBefore(y) == ((y - 1) \div 4) - ((y - 1) \div 100) + ((y - 1) \div 400)

DaysBeforeYear(y) == 365 * (y - 1970) + LeapsBefore(y) - LeapsBefore(1970)

CumDays == <<0, 31, 59, 90, 120, 151, 181, 212, 243, 273, 304, 334>>

DaysBeforeMonth(y, m) == CumDays[m] + (IF m > 2 /\ IsLeapYear(y) THEN 1 ELSE 0)

IsIsoDate(s) ==
  /\ Len(s) = 10
  /\ AllDigits(SubSeq(s, 1, 4))
  /\ CharAt(s, 5) = "-"
  /\ AllDigits(SubSeq(s, 6, 7))
  /\ CharAt(s, 8) = "-"
  /\ AllDigits(SubSeq(s, 9, 10))

DateParse(s) ==
  IF ~IsIsoDate(s) THEN InvalidDate
  ELSE LET y == ToNumber(SubSeq(s, 1, 4))
           m == ToNumber(SubSeq(s, 6, 7))
           d == ToNumber(SubSeq(s, 9, 10))
       IN IF m \in 1..12 /\ d \in 1..31
          THEN [valid |-> TRUE, day |-> DaysBeforeYear(y) + DaysBeforeMonth(y, m) + d - 1]
          ELSE InvalidDate

\* new Date(parts[i]) where parts[i] is undefined beyond the array's end
NewDate(parts, i) == IF i <= Len(parts) THEN DateParse(parts[i]) ELSE InvalidDate

\* !(d1 > d2) in place of d1 <= d2: true with NaN
DateLeq_notGreater(d1, d2) == ~(d1.valid /\ d2.valid /\ d1.day > d2.day)

\* d1 <= d2 on Date objects: a comparison of time values, false with NaN
DateLeq(d1, d2) == d1.valid /\ d2.valid /\ d1.day <= d2.day

isDateOverlap_strict(startDate1, endDate1, startDate2, endDate2) ==
  (startDate1.valid /\ endDate2.valid /\ startDate1.day < endDate2.day)
    /\ (startDate2.valid /\ endDate1.valid /\ startDate2.day < endDate1.day)

isDateOverlap(startDate1, endDate1, startDate2, endDate2) ==
  DateLeq(startDate1, endDate2) /\ DateLeq(startDate2, endDate1)

(***************************************************************************)
(* express-validator chains.  A missing field validates as the empty       *)
(* string.  IsEmail follows validator.js on the addresses used here: one   *)
(* "@" with a non-empty local part, and a dotted domain whose last label   *)
(* has at least two characters.                                            *)
(***************************************************************************)
IsEmail(s) ==
  LET at == IndexOfFrom(s, "@", 1)
  IN /\ at > 1
     /\ IndexOfFrom(s, "@", at + 1) = 0
     /\ LET dot == IndexOfFrom(s, ".", at + 1)
        IN dot > at + 1 /\ dot + 2 <= Len(s)

Field(obj, f) == IF f \in DOMAIN obj THEN obj[f] ELSE ""

Check(ok, msg) == IF ok THEN <<>> ELSE <<msg>>

credentialErrors(email, password) ==
  Check(IsEmail(email), "Invalid email format.")
    \o Check(Len(password) >= 6, "Password must be at least 6 characters long.")

profileErrors(profile) ==
  Check(Len(Field(profile, "fullName")) <= 50, "Full Name must be less than 50 characters long.")
    \o Check(Len(Field(profile, "address1")) <= 100, "Address 1 must be less than 100 characters long.")
    \o Check("address2" \notin DOMAIN profile \/ Len(Field(profile, "address2")) <= 100,
             "Address 2 must be less than 100 characters long.")
    \o Check(Len(Field(profile, "city")) <= 100, "City must be less than 100 characters long.")
    \o Check(Len(Field(profile, "state")) = 2, "State must be a 2-letter code.")
    \o Check(Len(Field(profile, "zip")) >= 5 /\ Len(Field(profile, "zip")) <= 9,
             "Zip Code must be between 5 and 9 characters long.")

eventErrors(b) ==
  Check(b.name # "", "Event name is required.")
    \o Check(b.description # "", "Event description is required.")
    \o Check(b.location # "", "Event location is required.")
    \o Check(Len(b.requiredSkills) >= 1, "At least one required skill is required.")
    \o Check(b.urgency # "", "Event urgency is required.")
    \o Check(Len(b.eventDates) >= 1, "At least one event date is required.")

notificationErrors(email, message) ==
  Check(IsEmail(email), "Invalid email format.")
    \o Check(message # "", "Notification message is required.")

matchErrors(email, eventId) ==
  Check(IsEmail(email), "Invalid email format.")
    \o Check(eventId # "", "Event ID is required.")

(***************************************************************************)
(* Responses: res.status(n).send(text) and res.status(n).json(value).      *)
(***************************************************************************)
NoJson == <<>>

Send(op, req, status, text) ==
  [op |-> op, req |-> req, status |-> status, text |-> text, json |-> NoJson]

Json(op, req, status, value) ==
  [op |-> op, req |-> req, status |-> status, text |-> "", json |-> value]

\* res.status(400).json({ errors: errors.array() })
Invalid(op, req, errors) == Json(op, req, 400, errors)

Idle == [op |-> "none", req |-> <<>>, status |-> 0, text |-> "", json |-> NoJson]

NoProbe == [phase |-> "none"]

(***************************************************************************)
(* Array helpers.                                                          *)
(***************************************************************************)
\* array.splice(i) without the delete count: everything from i on goes
RemoveAt_toEnd(seq, i) == SubSeq(seq, 1, i - 1)

\* array.splice(i, 1) for an index inside the array
RemoveAt(seq, i) == SubSeq(seq, 1, i - 1) \o SubSeq(seq, i + 1, Len(seq))

\* array.splice(i, 1) as JavaScript defines it for every i: index -1 (0 here)
\* counts from the end and removes the last element
Splice(seq, i) ==
  IF i >= 1 THEN RemoveAt(seq, i)
  ELSE IF Len(seq) = 0 THEN seq ELSE SubSeq(seq, 1, Len(seq) - 1)

First(idx) == IF idx = {} THEN 0 ELSE CHOOSE i \in idx : \A j \in idx : i <= j

\* users.findIndex(user => user.email === email); 0 stands for -1
userIndexOf(email) == First({i \in 1..Len(users) : users[i].email = email})

\* events.findIndex(event => event.id === id); 0 stands for -1
eventIndexOf(id) == First({i \in 1..Len(events) : events[i].id = id})

\* findLastIndex in place of findIndex
notificationIndexOf_last(email, message) ==
  LET found == {i \in 1..Len(notifications) :
                  notifications[i].email = email /\ notifications[i].message = message}
  IN IF found = {} THEN 0 ELSE CHOOSE i \in found : \A j \in found : j <= i

\* notifications.findIndex(n => n.email === email && n.message === message)
notificationIndexOf(email, message) ==
  First({i \in 1..Len(notifications) :
           notifications[i].email = email /\ notifications[i].message = message})

EmptyObject == [f \in {} |-> ""]

(***************************************************************************)
(* POST /register                                                          *)
(***************************************************************************)
userExists_never(email) == FALSE

userExists(email) == \E i \in 1..Len(users) : users[i].email = email

\* the handler's body, run to completion once the request reaches it
RegisterHandler(email, password) ==
  LET req == [email |-> email, password |-> password]
      errors == credentialErrors(email, password)
  IN /\ IF errors # <<>>
        THEN /\ resp' = Invalid("register", req, errors)
             /\ users' = users
        ELSE IF userExists(email)
        THEN /\ resp' = Send("register", req, 400, "User already exists.")
             /\ users' = users
        ELSE /\ users' = Append(users, [email |-> email, password |-> password,
                                        profile |-> EmptyObject, volunteerHistory |-> <<>>])
             /\ resp' = Send("register", req, 201, "User registered successfully.")
     /\ UNCHANGED <<events, notifications, now, probe>>

Register(email, password) ==
  /\ RegisterHandler(email, password)
  /\ UNCHANGED inflight

(***************************************************************************)
(* POST /login                                                             *)
(***************************************************************************)
credentialsMatch_emailOnly(user, email, password) == user.email = email

credentialsMatch(user, email, password) ==
  user.email = email /\ user.password = password

Login(email, password) ==
  LET req == [email |-> email, password |-> password]
      errors == credentialErrors(email, password)
  IN /\ IF errors # <<>>
        THEN resp' = Invalid("login", req, errors)
        ELSE IF ~\E i \in 1..Len(users) : credentialsMatch(users[i], email, password)
        THEN resp' = Send("login", req, 401, "Invalid email or password.")
        ELSE resp' = Send("login", req, 200, "Login successful.")
     /\ UNCHANGED <<users, events, notifications, now, probe, inflight>>

(***************************************************************************)
(* GET /profile/:email and PUT /profile/:email                             *)
(***************************************************************************)
GetProfile(email) ==
  LET req == [email |-> email]
      i == userIndexOf(email)
  IN /\ IF i = 0
        THEN resp' = Send("getProfile", req, 404, "User not found.")
        ELSE resp' = Json("getProfile", req, 200, users[i].profile)
     /\ UNCHANGED <<users, events, notifications, now, probe, inflight>>

\* the user record rebuilt from the request: users[userIndex] = { email, profile },
\* with the password and the history gone
UpdateProfile_rebuildUser(email, profile) ==
  LET req == [email |-> email, profile |-> profile]
      errors == profileErrors(profile)
      userIndex == userIndexOf(email)
  IN /\ IF errors # <<>>
        THEN /\ resp' = Invalid("updateProfile", req, errors)
             /\ users' = users
        ELSE IF userIndex = 0
        THEN /\ resp' = Send("updateProfile", req, 404, "User not found.")
             /\ users' = users
        ELSE /\ users' = [users EXCEPT ![userIndex] =
                            [email |-> email, password |-> "", profile |-> profile,
                             volunteerHistory |-> <<>>]]
             /\ resp' = Send("updateProfile", req, 200, "Profile updated successfully.")
     /\ UNCHANGED <<events, notifications, now, probe, inflight>>

\* Object.assign(users[userIndex].profile, profile) in place of the assignment
UpdateProfile_merge(email, profile) ==
  LET req == [email |-> email, profile |-> profile]
      errors == profileErrors(profile)
      userIndex == userIndexOf(email)
      merged(old) == [f \in DOMAIN old \cup DOMAIN profile |->
                        IF f \in DOMAIN profile THEN profile[f] ELSE old[f]]
  IN /\ IF errors # <<>>
        THEN /\ resp' = Invalid("updateProfile", req, errors)
             /\ users' = users
        ELSE IF userIndex = 0
        THEN /\ resp' = Send("updateProfile", req, 404, "User not found.")
             /\ users' = users
        ELSE /\ users' = [users EXCEPT ![userIndex].profile = merged(@)]
             /\ resp' = Send("updateProfile", req, 200, "Profile updated successfully.")
     /\ UNCHANGED <<events, notifications, now, probe, inflight>>

UpdateProfile(email, profile) ==
  LET req == [email |-> email, profile |-> profile]
      errors == profileErrors(profile)
      userIndex == userIndexOf(email)
  IN /\ IF errors # <<>>
        THEN /\ resp' = Invalid("updateProfile", req, errors)
             /\ users' = users
        ELSE IF userIndex = 0
        THEN /\ resp' = Send("updateProfile", req, 404, "User not found.")
             /\ users' = users
        ELSE /\ users' = [users EXCEPT ![userIndex].profile = profile]
             /\ resp' = Send("updateProfile", req, 200, "Profile updated successfully.")
     /\ UNCHANGED <<events, notifications, now, probe, inflight>>

(***************************************************************************)
(* POST /events, GET /events, DELETE /events/:id                           *)
(***************************************************************************)
\* `${Date.now()}`
newEventId == ToString(now)

broadcast_firstUserOnly(name) ==
  [i \in 1..(IF Len(users) = 0 THEN 0 ELSE 1) |->
     [email |-> users[i].email, message |-> "New event: " \o name]]

\* users.forEach(user => notifications.push({ email, message: `New event: ${name}` }))
broadcast(name) ==
  [i \in 1..Len(users) |-> [email |-> users[i].email, message |-> "New event: " \o name]]

CreateEvent(body) ==
  LET errors == eventErrors(body)
      newEvent == [id |-> newEventId, name |-> body.name, description |-> body.description,
                   location |-> body.location, requiredSkills |-> body.requiredSkills,
                   urgency |-> body.urgency, eventDates |-> body.eventDates]
  IN /\ IF errors # <<>>
        THEN /\ resp' = Invalid("createEvent", body, errors)
             /\ UNCHANGED <<events, notifications>>
        ELSE /\ Len(events) < MaxEvents
             /\ Len(notifications) + Len(users) <= MaxNotifications
             /\ events' = Append(events, newEvent)
             /\ notifications' = notifications \o broadcast(body.name)
             /\ resp' = Json("createEvent", body, 201, newEvent)
     /\ UNCHANGED <<users, now, probe, inflight>>

GetEvents ==
  /\ resp' = Json("getEvents", <<>>, 200, events)
  /\ UNCHANGED <<users, events, notifications, now, probe, inflight>>

DeleteEvent_spliceFirst(id) ==
  LET req == [id |-> id]
      eventIndex == eventIndexOf(id)
  IN /\ events' = Splice(events, eventIndex)
     /\ IF eventIndex = 0
        THEN resp' = Send("deleteEvent", req, 404, "Event not found.")
        ELSE resp' = Send("deleteEvent", req, 200, "Event deleted successfully.")
     /\ UNCHANGED <<users, notifications, now, probe, inflight>>

\* a delete that cascades into every volunteerHistory
DeleteEvent_cascade(id) ==
  LET req == [id |-> id]
      eventIndex == eventIndexOf(id)
      keep(history) == SelectSeq(history, LAMBDA h : h.eventId # id)
  IN /\ IF eventIndex = 0
        THEN /\ resp' = Send("deleteEvent", req, 404, "Event not found.")
             /\ UNCHANGED <<users, events>>
        ELSE /\ events' = Splice(events, eventIndex)
             /\ users' = [i \in 1..Len(users) |->
                            [users[i] EXCEPT !.volunteerHistory = keep(@)]]
             /\ resp' = Send("deleteEvent", req, 200, "Event deleted successfully.")
     /\ UNCHANGED <<notifications, now, probe, inflight>>

DeleteEvent(id) ==
  LET req == [id |-> id]
      eventIndex == eventIndexOf(id)
  IN /\ IF eventIndex = 0
        THEN /\ resp' = Send("deleteEvent", req, 404, "Event not found.")
             /\ events' = events
        ELSE /\ events' = Splice(events, eventIndex)
             /\ resp' = Send("deleteEvent", req, 200, "Event deleted successfully.")
     /\ UNCHANGED <<users, notifications, now, probe, inflight>>

(***************************************************************************)
(* POST /notifications, GET /notifications/:email,                         *)
(* DELETE /notifications/:email/:message, GET /users                       *)
(***************************************************************************)
CreateNotification(email, message) ==
  LET req == [email |-> email, message |-> message]
      errors == notificationErrors(email, message)
  IN /\ IF errors # <<>>
        THEN /\ resp' = Invalid("createNotification", req, errors)
             /\ notifications' = notifications
        ELSE /\ Len(notifications) < MaxNotifications
             /\ notifications' = Append(notifications, [email |-> email, message |-> message])
             /\ resp' = Send("createNotification", req, 201, "Notification created successfully.")
     /\ UNCHANGED <<users, events, now, probe, inflight>>

GetNotifications(email) ==
  LET IsFor(notification) == notification.email = email
  IN /\ resp' = Json("getNotifications", [email |-> email], 200, SelectSeq(notifications, IsFor))
     /\ UNCHANGED <<users, events, notifications, now, probe, inflight>>

GetUsers ==
  /\ resp' = Json("getUsers", <<>>, 200, users)
  /\ UNCHANGED <<users, events, notifications, now, probe, inflight>>

DeleteNotification(email, message) ==
  LET req == [email |-> email, message |-> message]
      notificationIndex == notificationIndexOf(email, message)
  IN /\ IF notificationIndex = 0
        THEN /\ resp' = Send("deleteNotification", req, 404, "Notification not found.")
             /\ notifications' = notifications
        ELSE /\ notifications' = Splice(notifications, notificationIndex)
             /\ resp' = Send("deleteNotification", req, 200, "Notification deleted successfully.")
     /\ UNCHANGED <<users, events, now, probe, inflight>>

(***************************************************************************)
(* GET /matching-events/:email                                             *)
(***************************************************************************)
\* array.includes(x)
Includes(seq, x) == \E i \in 1..Len(seq) : seq[i] = x

\* user.profile.skills || []
userSkills(user) ==
  IF "skills" \in DOMAIN user.profile THEN user.profile.skills ELSE <<>>

\* user.profile.availability || []
userAvailability(user) ==
  IF "availability" \in DOMAIN user.profile THEN user.profile.availability ELSE <<>>

\* One (event range, availability range) pair: both strings are split on
\* ' to ', the first two parts are passed to new Date, and the four Dates to
\* isDateOverlap.
rangesOverlap(dates, dateRange) ==
  LET eventParts == Split(dates, " to ")
      availParts == Split(dateRange, " to ")
  IN isDateOverlap(NewDate(eventParts, 1), NewDate(eventParts, 2),
                   NewDate(availParts, 1), NewDate(availParts, 2))

skillsMatch_every(user, event) ==
  \A i \in 1..Len(event.requiredSkills) : Includes(userSkills(user), event.requiredSkills[i])

\* event.requiredSkills.some(skill => userSkills.includes(skill))
skillsMatch(user, event) ==
  \E i \in 1..Len(event.requiredSkills) : Includes(userSkills(user), event.requiredSkills[i])

\* every in place of the inner some: true over an empty availability
datesMatch_every(user, event) ==
  \E i \in 1..Len(event.eventDates) :
    \A j \in 1..Len(userAvailability(user)) :
      rangesOverlap(event.eventDates[i], userAvailability(user)[j])

\* eventDates.some(([s, e]) => userAvailability.some(dateRange => isDateOverlap(...)))
datesMatch(user, event) ==
  \E i \in 1..Len(event.eventDates) :
    \E j \in 1..Len(userAvailability(user)) :
      rangesOverlap(event.eventDates[i], userAvailability(user)[j])

\* events.filter(event => ...)
matchingEvents(user) ==
  LET Keep(event) == skillsMatch(user, event) /\ datesMatch(user, event)
  IN SelectSeq(events, Keep)

MatchingEvents(email) ==
  LET req == [email |-> email]
      i == userIndexOf(email)
  IN /\ IF i = 0
        THEN resp' = Send("matchingEvents", req, 404, "User not found.")
        ELSE resp' = Json("matchingEvents", req, 200, matchingEvents(users[i]))
     /\ UNCHANGED <<users, events, notifications, now, probe, inflight>>

(***************************************************************************)
(* POST /match-volunteer, GET /history/:email, GET /                       *)
(***************************************************************************)
alreadyMatched_never(user, eventId) == FALSE

\* a match refused also when the matching filter would not return the event
alreadyMatched_orNotMatching(user, eventId) ==
  \/ \E i \in 1..Len(user.volunteerHistory) : user.volunteerHistory[i].eventId = eventId
  \/ ~\E i \in 1..Len(matchingEvents(user)) : matchingEvents(user)[i].id = eventId

\* user.volunteerHistory.some(history => history.eventId === eventId)
alreadyMatched(user, eventId) ==
  \E i \in 1..Len(user.volunteerHistory) : user.volunteerHistory[i].eventId = eventId

historyEntry(event) ==
  [eventId |-> event.id, eventName |-> event.name, eventDescription |-> event.description,
   location |-> event.location, requiredSkills |-> event.requiredSkills,
   urgency |-> event.urgency, dates |-> event.eventDates, status |-> "Registered"]

matchNotification(user, event) ==
  [email |-> user.email, message |-> "You have been matched to the event: " \o event.name]

\* the notification pushed before the already-matched check
MatchVolunteer_notifyFirst(email, eventId) ==
  LET req == [email |-> email, eventId |-> eventId]
      errors == matchErrors(email, eventId)
      u == userIndexOf(email)
      e == eventIndexOf(eventId)
  IN /\ IF errors # <<>>
        THEN /\ resp' = Invalid("matchVolunteer", req, errors)
             /\ UNCHANGED <<users, notifications>>
        ELSE IF u = 0
        THEN /\ resp' = Send("matchVolunteer", req, 404, "User not found.")
             /\ UNCHANGED <<users, notifications>>
        ELSE IF e = 0
        THEN /\ resp' = Send("matchVolunteer", req, 404, "Event not found.")
             /\ UNCHANGED <<users, notifications>>
        ELSE /\ Len(notifications) < MaxNotifications
             /\ notifications' = Append(notifications, matchNotification(users[u], events[e]))
             /\ IF alreadyMatched(users[u], eventId)
                THEN /\ resp' = Send("matchVolunteer", req, 400, "Volunteer already matched to this event.")
                     /\ users' = users
                ELSE /\ users' = [users EXCEPT ![u].volunteerHistory = Append(@, historyEntry(events[e]))]
                     /\ resp' = Send("matchVolunteer", req, 200, "Volunteer matched to event successfully.")
     /\ UNCHANGED <<events, now, probe, inflight>>

\* the handler's body, run to completion once the request reaches it
MatchVolunteerHandler(email, eventId) ==
  LET req == [email |-> email, eventId |-> eventId]
      errors == matchErrors(email, eventId)
      u == userIndexOf(email)
      e == eventIndexOf(eventId)
  IN /\ IF errors # <<>>
        THEN /\ resp' = Invalid("matchVolunteer", req, errors)
             /\ UNCHANGED <<users, notifications>>
        ELSE IF u = 0
        THEN /\ resp' = Send("matchVolunteer", req, 404, "User not found.")
             /\ UNCHANGED <<users, notifications>>
        ELSE IF e = 0
        THEN /\ resp' = Send("matchVolunteer", req, 404, "Event not found.")
             /\ UNCHANGED <<users, notifications>>
        ELSE IF alreadyMatched(users[u], eventId)
        THEN /\ resp' = Send("matchVolunteer", req, 400, "Volunteer already matched to this event.")
             /\ UNCHANGED <<users, notifications>>
        ELSE /\ Len(notifications) < MaxNotifications
             /\ users' = [users EXCEPT ![u].volunteerHistory = Append(@, historyEntry(events[e]))]
             /\ notifications' = Append(notifications, matchNotification(users[u], events[e]))
             /\ resp' = Send("matchVolunteer", req, 200, "Volunteer matched to event successfully.")
     /\ UNCHANGED <<events, now, probe>>

\* the event looked up and refused before the user
MatchVolunteer_eventFirst(email, eventId) ==
  LET req == [email |-> email, eventId |-> eventId]
      errors == matchErrors(email, eventId)
      u == userIndexOf(email)
      e == eventIndexOf(eventId)
  IN /\ IF errors # <<>>
        THEN /\ resp' = Invalid("matchVolunteer", req, errors)
             /\ UNCHANGED <<users, notifications>>
        ELSE IF e = 0
        THEN /\ resp' = Send("matchVolunteer", req, 404, "Event not found.")
             /\ UNCHANGED <<users, notifications>>
        ELSE IF u = 0
        THEN /\ resp' = Send("matchVolunteer", req, 404, "User not found.")
             /\ UNCHANGED <<users, notifications>>
        ELSE IF alreadyMatched(users[u], eventId)
        THEN /\ resp' = Send("matchVolunteer", req, 400, "Volunteer already matched to this event.")
             /\ UNCHANGED <<users, notifications>>
        ELSE /\ Len(notifications) < MaxNotifications
             /\ users' = [users EXCEPT ![u].volunteerHistory = Append(@, historyEntry(events[e]))]
             /\ notifications' = Append(notifications, matchNotification(users[u], events[e]))
             /\ resp' = Send("matchVolunteer", req, 200, "Volunteer matched to event successfully.")
     /\ UNCHANGED <<events, now, probe, inflight>>

MatchVolunteer(email, eventId) ==
  /\ MatchVolunteerHandler(email, eventId)
  /\ UNCHANGED inflight

GetHistory(email) ==
  LET req == [email |-> email]
      i == userIndexOf(email)
  IN /\ IF i = 0
        THEN resp' = Send("getHistory", req, 404, "User not found.")
        ELSE resp' = Json("getHistory", req, 200, users[i].volunteerHistory)
     /\ UNCHANGED <<users, events, notifications, now, probe, inflight>>

Root ==
  /\ resp' = Send("root", <<>>, 200, "Hello World!")
  /\ UNCHANGED <<users, events, notifications, now, probe, inflight>>

(***************************************************************************)
(* The clock behind Date.now(): time passes between requests.              *)
(***************************************************************************)
Tick ==
  /\ now < MaxTime
  /\ now' = now + 1
  /\ resp' = Idle
  /\ UNCHANGED <<users, events, notifications, probe, inflight>>

(***************************************************************************)
(* Requests in flight.  Node reads and parses request bodies               *)
(* asynchronously (bodyParser.json and the express-validator chains are    *)
(* middleware that yield to the event loop), so several requests can be    *)
(* part-way through the middleware at once, and they reach their handlers  *)
(* in any order.  A route handler is a synchronous function: once called   *)
(* it runs to its res.send without yielding.  inflight holds one slot per  *)
(* request that has arrived: its route, its body, how far it has got, and  *)
(* the status it was answered with.                                        *)
(***************************************************************************)
Receive(kind, req) ==
  /\ Len(inflight) < MaxInFlight
  /\ inflight' = Append(inflight, [kind |-> kind, req |-> req, stage |-> "parsing", status |-> 0])
  /\ UNCHANGED <<users, events, notifications, now, resp, probe>>

Parsed(k) ==
  /\ k \in 1..Len(inflight)
  /\ inflight[k].stage = "parsing"
  /\ inflight' = [inflight EXCEPT ![k].stage = "ready"]
  /\ UNCHANGED <<users, events, notifications, now, resp, probe>>

Answered(k) == [inflight EXCEPT ![k].stage = "done", ![k].status = resp'.status]

\* the existence test in one turn of the event loop, the push in a later one
\* (an await between them)
ServeRegister_awaitBeforePush(k) ==
  /\ k \in 1..Len(inflight)
  /\ inflight[k].kind = "register"
  /\ \/ /\ inflight[k].stage = "ready"
        /\ inflight' = [inflight EXCEPT ![k].stage = "checked",
                                         ![k].status = IF userExists(inflight[k].req.email)
                                                       THEN 400 ELSE 201]
        /\ UNCHANGED <<users, events, notifications, now, resp, probe>>
     \/ /\ inflight[k].stage = "checked"
        /\ IF inflight[k].status = 400
           THEN /\ resp' = Send("register", inflight[k].req, 400, "User already exists.")
                /\ users' = users
           ELSE /\ users' = Append(users, [email |-> inflight[k].req.email,
                                           password |-> inflight[k].req.password,
                                           profile |-> EmptyObject, volunteerHistory |-> <<>>])
                /\ resp' = Send("register", inflight[k].req, 201, "User registered successfully.")
        /\ inflight' = [inflight EXCEPT ![k].stage = "done"]
        /\ UNCHANGED <<events, notifications, now, probe>>

ServeRegister(k) ==
  /\ k \in 1..Len(inflight)
  /\ inflight[k].kind = "register"
  /\ inflight[k].stage = "ready"
  /\ RegisterHandler(inflight[k].req.email, inflight[k].req.password)
  /\ inflight' = Answered(k)

ServeMatchVolunteer(k) ==
  /\ k \in 1..Len(inflight)
  /\ inflight[k].kind = "matchVolunteer"
  /\ inflight[k].stage = "ready"
  /\ MatchVolunteerHandler(inflight[k].req.email, inflight[k].req.eventId)
  /\ inflight' = Answered(k)

(***************************************************************************)
(* Requests of the system specification.                                   *)
(***************************************************************************)
\* One address that can register and one that is no e-mail address at all.
Emails == {"a@x.io", "nobody"}

\* Requests as <<email, password>>: well formed, a short password, no e-mail.
RegisterRequests ==
  {<<"a@x.io", "secret1">>, <<"a@x.io", "12345">>, <<"nobody", "secret1">>}

LoginRequests ==
  {<<"a@x.io", "secret1">>, <<"a@x.io", "secret2">>, <<"nobody", "secret1">>}

Profile1 ==
  [fullName |-> "Ann", address1 |-> "1 Main St", city |-> "Anytown", state |-> "CA",
   zip |-> "12345", skills |-> <<"skill1">>, availability |-> <<"2024-07-20 to 2024-07-21">>]

ProfileBad == [Profile1 EXCEPT !.state = "CAL"]

\* Requests as <<email, profile>>
ProfileRequests ==
  {<<"a@x.io", Profile1>>, <<"a@x.io", ProfileBad>>, <<"nobody", Profile1>>}

Event1 ==
  [name |-> "Park", description |-> "Clean the park", location |-> "Park",
   requiredSkills |-> <<"skill1">>, urgency |-> "High",
   eventDates |-> <<"2024-07-20 to 2024-07-21">>]

EventBad == [Event1 EXCEPT !.name = ""]

EventBodies == {Event1, EventBad}

EventIds == {ToString(t) : t \in 1..MaxTime} \cup {""}

\* Requests as <<email, eventId>>
MatchRequests == {<<"a@x.io", id>> : id \in EventIds} \cup {<<"nobody", "1">>}

\* Requests as <<email, message>>
NotificationRequests ==
  {<<"a@x.io", "New event: Park">>, <<"a@x.io", "">>, <<"nobody", "New event: Park">>}

Init ==
  /\ users = <<>>
  /\ events = <<>>
  /\ notifications = <<>>
  /\ now = 1
  /\ resp = Idle
  /\ probe = NoProbe
  /\ inflight = <<>>

Next ==
  \/ \E r \in RegisterRequests : Register(r[1], r[2])
  \/ \E r \in LoginRequests : Login(r[1], r[2])
  \/ \E email \in Emails : GetProfile(email)
  \/ \E r \in ProfileRequests : UpdateProfile(r[1], r[2])
  \/ \E body \in EventBodies : CreateEvent(body)
  \/ GetEvents
  \/ \E id \in EventIds \ {""} : DeleteEvent(id)
  \/ \E r \in NotificationRequests : CreateNotification(r[1], r[2])
  \/ \E email \in Emails : GetNotifications(email)
  \/ GetUsers
  \/ \E email \in Emails : DeleteNotification(email, "New event: Park")
  \/ \E email \in Emails : MatchingEvents(email)
  \/ \E r \in MatchRequests : MatchVolunteer(r[1], r[2])
  \/ \E email \in Emails : GetHistory(email)
  \/ Root
  \/ Tick

Spec == Init /\ [][Next]_vars

(***************************************************************************)
(* The broadcast specification: two users can register, events are created *)
(* and deleted, notifications are created and deleted by hand.             *)
(***************************************************************************)
CrowdEmails == {"a@x.io", "b@x.io"}

Event2 ==
  [name |-> "Food", description |-> "Sort the food", location |-> "Hall",
   requiredSkills |-> <<"skill2">>, urgency |-> "Low",
   eventDates |-> <<"2024-01-05 to 2024-01-10">>]

CrowdEvents == {Event1, Event2, EventBad}

NextCrowd ==
  \/ \E email \in CrowdEmails : Register(email, "secret1")
  \/ \E body \in CrowdEvents : CreateEvent(body)
  \/ DeleteEvent("1")
  \/ \E email \in CrowdEmails : CreateNotification(email, "New event: Park")
  \/ \E email \in CrowdEmails : DeleteNotification(email, "New event: Park")
  \/ \E email \in CrowdEmails : GetNotifications(email)

SpecCrowd == Init /\ [][NextCrowd]_vars

(***************************************************************************)
(* The matching specification: one user, whose profile takes every         *)
(* combination of the skills and availabilities below, and events over the *)
(* required skills and dates below.                                        *)
(***************************************************************************)
SkillChoices == {<<>>, <<"skill2", "skill1">>}

AvailabilityChoices ==
  {<<>>,
   <<"2024-07-20 to 2024-07-21">>,
   <<"2024-01-01 to 2024-01-05">>,
   <<"2024-07-20", "2024-01-05 to soon", "2023-12-31 to 2024-01-04">>}

BaseProfile ==
  [fullName |-> "Ann", address1 |-> "1 Main St", city |-> "Anytown", state |-> "CA",
   zip |-> "12345"]

WithSkills(profile, skills) ==
  [f \in DOMAIN profile \cup {"skills"} |-> IF f = "skills" THEN skills ELSE profile[f]]

WithAvailability(profile, availability) ==
  [f \in DOMAIN profile \cup {"availability"} |->
     IF f = "availability" THEN availability ELSE profile[f]]

MatchingProfiles ==
  {BaseProfile}
    \cup {WithAvailability(WithSkills(BaseProfile, sk), av) :
            sk \in SkillChoices, av \in AvailabilityChoices}

RequiredSkillChoices == {<<"skillX", "skill1">>, <<"skillX">>}

EventDateChoices ==
  {<<"2024-07-20 to 2024-07-21">>,
   <<"soon to 2024-07-21", "2024-01-05 to 2024-01-10">>,
   <<"2024-07-21 to ">>}

MatchingEventBodies ==
  {[Event1 EXCEPT !.requiredSkills = sk, !.eventDates = ds] :
     sk \in RequiredSkillChoices, ds \in EventDateChoices}

NextMatching ==
  \/ Register("a@x.io", "secret1")
  \/ \E profile \in MatchingProfiles : UpdateProfile("a@x.io", profile)
  \/ \E body \in MatchingEventBodies : CreateEvent(body)
  \/ DeleteEvent("1")
  \/ \E email \in Emails : MatchingEvents(email)

SpecMatching == Init /\ [][NextMatching]_vars

(***************************************************************************)
(* The overlap specification: the date test of GET /matching-events        *)
(* applied to one event range and one availability range, and to the same  *)
(* two ranges exchanged.                                                   *)
(***************************************************************************)
ProbeDates == {"2023-12-31", "2024-01-01", "2024-01-05", "2024-02-29", "2024-03-01"}

ProbeRanges ==
  {s \o " to " \o e : s, e \in ProbeDates} \cup {"2024-01-05", "soon to 2024-01-05"}

InitOverlap ==
  /\ users = <<>>
  /\ events = <<>>
  /\ notifications = <<>>
  /\ now = 1
  /\ resp = Idle
  /\ probe \in {[phase |-> "input", dates |-> d, dateRange |-> r] : d, r \in ProbeRanges}
  /\ inflight = <<>>

ApplyOverlap ==
  /\ probe.phase = "input"
  /\ probe' = [phase |-> "result", dates |-> probe.dates, dateRange |-> probe.dateRange,
               overlap |-> rangesOverlap(probe.dates, probe.dateRange),
               swapped |-> rangesOverlap(probe.dateRange, probe.dates)]
  /\ UNCHANGED <<users, events, notifications, now, resp, inflight>>

NextOverlap == ApplyOverlap

SpecOverlap == InitOverlap /\ [][NextOverlap]_vars

(***************************************************************************)
(* The profile specification: two users register, replace their profiles   *)
(* by the valid profile of the tests, by one without skills and            *)
(* availability, or by an invalid one, read them back, and are matched to  *)
(* an event, so that each user carries state besides the profile.          *)
(***************************************************************************)
ProfileChoices == {BaseProfile, Profile1, ProfileBad}

NextProfiles ==
  \/ \E email \in CrowdEmails : Register(email, "secret1")
  \/ \E email \in CrowdEmails, profile \in ProfileChoices : UpdateProfile(email, profile)
  \/ \E email \in CrowdEmails : GetProfile(email)
  \/ CreateEvent(Event1)
  \/ \E email \in CrowdEmails : MatchVolunteer(email, "1")

SpecProfiles == Init /\ [][NextProfiles]_vars

(***************************************************************************)
(* The concurrent specification: Register requests for one email and Match *)
(* Volunteer requests for one (email, eventId) arrive, pass the middleware  *)
(* and are served in every order, while the event is created and deleted.  *)
(***************************************************************************)
ConcurrentRequests ==
  {[kind |-> "register", req |-> [email |-> "a@x.io", password |-> "secret1"]],
   [kind |-> "matchVolunteer", req |-> [email |-> "a@x.io", eventId |-> "1"]]}

NextConcurrent ==
  \/ \E r \in ConcurrentRequests : Receive(r.kind, r.req)
  \/ \E k \in 1..MaxInFlight : Parsed(k)
  \/ \E k \in 1..MaxInFlight : ServeRegister(k)
  \/ \E k \in 1..MaxInFlight : ServeMatchVolunteer(k)
  \/ CreateEvent(Event1)
  \/ DeleteEvent("1")

SpecConcurrent == Init /\ [][NextConcurrent]_vars

(***************************************************************************)
(* The inbox specification: DELETE /notifications/:email/:message and      *)
(* GET /notifications/:email over every notification list of at most       *)
(* MaxInbox entries.  Each such list is the store after that many accepted *)
(* POST /notifications requests (server.js:145-157 pushes whatever         *)
(* validates, without looking at users or at the entries already stored).  *)
(***************************************************************************)
MaxInbox == 3

InboxEntries ==
  {[email |-> "a@x.io", message |-> "New event: Park"],
   [email |-> "a@x.io", message |-> "New event: Food"],
   [email |-> "b@x.io", message |-> "New event: Park"]}

InboxLists == UNION {[1..n -> InboxEntries] : n \in 0..MaxInbox}

InitInbox ==
  /\ users = <<>>
  /\ events = <<>>
  /\ notifications \in InboxLists
  /\ now = 1
  /\ resp = Idle
  /\ probe = NoProbe
  /\ inflight = <<>>

NextInbox ==
  \/ \E n \in InboxEntries : DeleteNotification(n.email, n.message)
  \/ \E email \in CrowdEmails : GetNotifications(email)

SpecInbox == InitInbox /\ [][NextInbox]_vars

(***************************************************************************)
(* Vocabulary of the properties, written on the collections themselves.    *)
(***************************************************************************)
HasUser(us, email) == \E i \in 1..Len(us) : us[i].email = email

HasEvent(evs, id) == \E i \in 1..Len(evs) : evs[i].id = id

HasEntry(us, email, eventId) ==
  \E i \in 1..Len(us) :
    /\ us[i].email = email
    /\ \E k \in 1..Len(us[i].volunteerHistory) : us[i].volunteerHistory[k].eventId = eventId

ErrorStatus(status) == status \in {400, 401, 404}

(***************************************************************************)
(* C1                                                                      *)
(***************************************************************************)
UniqueEmails ==
  \A i, j \in 1..Len(users) : users[i].email = users[j].email => i = j

\* C1 as stated: no two users share an email, and every Register whose email
\* is already registered answers 400 'User already exists.' and adds no user.
C1_AsStated ==
  [][(resp'.op = "register" /\ HasUser(users, resp'.req.email))
       => (/\ resp'.status = 400
           /\ resp'.text = "User already exists."
           /\ users' = users)]_vars

\* C1 amended: no two users share an email; a Register whose email is already
\* registered adds no user and answers 400: 'User already exists.' when the
\* request is well formed, the validation errors when the password is shorter
\* than 6 characters.
C1_DuplicateRejected ==
  /\ []UniqueEmails
  /\ [][(resp'.op = "register" /\ HasUser(users, resp'.req.email))
          => (/\ resp'.status = 400
              /\ users' = users
              /\ IF Len(resp'.req.password) >= 6
                 THEN resp'.text = "User already exists."
                 ELSE resp'.text = "" /\ Len(resp'.json) >= 1)]_vars

C1_Witness ==
  /\ resp.op = "register"
  /\ resp.text = "User already exists."
  /\ Len(users) = 1
  /\ users[1].email = resp.req.email

(***************************************************************************)
(* C2                                                                      *)
(***************************************************************************)
\* C2: in every reachable state each user's volunteerHistory holds at most one
\* HistoryEntry per eventId.
C2_OneEntryPerEvent ==
  \A u \in 1..Len(users) :
    \A i, j \in 1..Len(users[u].volunteerHistory) :
      users[u].volunteerHistory[i].eventId = users[u].volunteerHistory[j].eventId => i = j

\* a second match was attempted and rejected while the history already holds
\* entries for two events
C2_Witness ==
  /\ resp.op = "matchVolunteer"
  /\ resp.status = 400
  /\ resp.text = "Volunteer already matched to this event."
  /\ \E u \in 1..Len(users) : Len(users[u].volunteerHistory) = 2

(***************************************************************************)
(* C3                                                                      *)
(***************************************************************************)
AlreadyMatchedText == "Volunteer already matched to this event."

\* C3 as stated: a Match Volunteer call for a pair (email, eventId) that was
\* matched successfully before answers Conflict and leaves the history as it
\* is, whatever happened in between.
C3_AsStated ==
  [][(resp'.op = "matchVolunteer" /\ HasEntry(users, resp'.req.email, resp'.req.eventId))
       => (/\ resp'.status = 400
           /\ resp'.text = AlreadyMatchedText
           /\ users' = users)]_vars

\* C3 amended: such a call never duplicates the HistoryEntry; it answers
\* Conflict while an event with that id is in the Event collection, and
\* NotFound ('Event not found.') once the event has been deleted.
C3_SecondMatchRejected ==
  [][(resp'.op = "matchVolunteer" /\ HasEntry(users, resp'.req.email, resp'.req.eventId))
       => (/\ users' = users
           /\ notifications' = notifications
           /\ IF HasEvent(events, resp'.req.eventId)
              THEN resp'.status = 400 /\ resp'.text = AlreadyMatchedText
              ELSE resp'.status = 404 /\ resp'.text = "Event not found.")]_vars

C3_Witness ==
  /\ resp.op = "matchVolunteer"
  /\ resp.status = 400
  /\ resp.text = AlreadyMatchedText
  /\ HasEntry(users, resp.req.email, resp.req.eventId)
  /\ HasEvent(events, resp.req.eventId)

(***************************************************************************)
(* C4                                                                      *)
(***************************************************************************)
IsAppend(before, after) ==
  Len(after) = Len(before) + 1 /\ SubSeq(after, 1, Len(before)) = before

Last(seq) == seq[Len(seq)]

\* the two effects of a successful match of user u to event e
MatchApplied(u, e) ==
  /\ Len(users') = Len(users)
  /\ \A i \in 1..Len(users) : i # u => users'[i] = users[i]
  /\ users'[u].email = users[u].email
  /\ users'[u].password = users[u].password
  /\ users'[u].profile = users[u].profile
  /\ IsAppend(users[u].volunteerHistory, users'[u].volunteerHistory)
  /\ Last(users'[u].volunteerHistory).eventId = events[e].id
  /\ Last(users'[u].volunteerHistory).eventName = events[e].name
  /\ Last(users'[u].volunteerHistory).status = "Registered"
  /\ IsAppend(notifications, notifications')
  /\ Last(notifications').email = users[u].email
  /\ IndexOfFrom(Last(notifications').message, events[e].name, 1) > 0

\* C4: a Match Volunteer step that succeeds appends exactly one HistoryEntry
\* with status "Registered" for the event to that user's history and exactly
\* one Notification to that user naming the event; a step that fails appends
\* neither.
C4_MatchAllOrNothing ==
  [][resp'.op = "matchVolunteer"
       => IF resp'.status = 200
          THEN \E u \in 1..Len(users), e \in 1..Len(events) :
                 /\ users[u].email = resp'.req.email
                 /\ events[e].id = resp'.req.eventId
                 /\ MatchApplied(u, e)
          ELSE users' = users /\ notifications' = notifications]_vars

C4_Witness ==
  /\ resp.op = "matchVolunteer"
  /\ resp.status = 200
  /\ Len(notifications) >= 1
  /\ Last(notifications).email = resp.req.email
  /\ HasEntry(users, resp.req.email, resp.req.eventId)

(***************************************************************************)
(* C7                                                                      *)
(***************************************************************************)
MutatingOps ==
  {"register", "updateProfile", "createEvent", "deleteEvent", "createNotification",
   "deleteNotification", "matchVolunteer"}

\* C7: a step in which Register, Update Profile, Create Event, Delete Event,
\* Create Notification, Delete Notification or Match Volunteer answers an
\* error, or Login answers 401, leaves users, events and notifications as
\* they were.
C7_NoMutationOnError ==
  [][((resp'.op \in MutatingOps /\ ErrorStatus(resp'.status))
        \/ (resp'.op = "login" /\ resp'.status = 401))
       => (users' = users /\ events' = events /\ notifications' = notifications)]_vars

\* an error answered while all three collections hold something to lose
C7_Witness ==
  /\ resp.op = "deleteEvent"
  /\ resp.status = 404
  /\ Len(users) >= 1
  /\ Len(events) >= 1
  /\ Len(notifications) >= 1

(***************************************************************************)
(* C8                                                                      *)
(***************************************************************************)
CredentialsRegistered(us, req) ==
  \E i \in 1..Len(us) : us[i].email = req.email /\ us[i].password = req.password

MalformedCredentials(req) == ~IsEmail(req.email) \/ Len(req.password) < 6

\* C8: a Login step answers 200 exactly when some user has both the email and
\* the password of the request; otherwise it answers 401, or 400 with the
\* validation errors when the request is malformed; it changes no state.
C8_LoginIffCredentials ==
  [][resp'.op = "login"
       => (/\ users' = users /\ events' = events /\ notifications' = notifications
           /\ (resp'.status = 200) <=> CredentialsRegistered(users, resp'.req)
           /\ resp'.status # 200
                => IF MalformedCredentials(resp'.req)
                   THEN resp'.status = 400 /\ Len(resp'.json) >= 1
                   ELSE resp'.status = 401)]_vars

\* a login refused for a registered email with another password
C8_Witness ==
  /\ resp.op = "login"
  /\ resp.status = 401
  /\ HasUser(users, resp.req.email)

(***************************************************************************)
(* C10                                                                     *)
(***************************************************************************)
\* C10: no two events in the Event collection have the same id.
C10_UniqueEventIds ==
  \A i, j \in 1..Len(events) : events[i].id = events[j].id => i = j

(***************************************************************************)
(* Date ranges as the properties read them: by position in the text        *)
(* 'YYYY-MM-DD to YYYY-MM-DD', compared in calendar order.                 *)
(***************************************************************************)
DaysInMonth(y, m) ==
  IF m = 2 THEN (IF IsLeapYear(y) THEN 29 ELSE 28)
  ELSE IF m \in {4, 6, 9, 11} THEN 30 ELSE 31

IsCalendarDate(s) ==
  /\ IsIsoDate(s)
  /\ ToNumber(SubSeq(s, 6, 7)) \in 1..12
  /\ ToNumber(SubSeq(s, 9, 10)) \in
       1..DaysInMonth(ToNumber(SubSeq(s, 1, 4)), ToNumber(SubSeq(s, 6, 7)))

CalendarKey(s) ==
  ToNumber(SubSeq(s, 1, 4)) * 10000 + ToNumber(SubSeq(s, 6, 7)) * 100
    + ToNumber(SubSeq(s, 9, 10))

OfRangeForm(r) ==
  /\ Len(r) = 24
  /\ SubSeq(r, 11, 14) = " to "
  /\ IsCalendarDate(SubSeq(r, 1, 10))
  /\ IsCalendarDate(SubSeq(r, 15, 24))

RangeStart(r) == CalendarKey(SubSeq(r, 1, 10))

RangeEnd(r) == CalendarKey(SubSeq(r, 15, 24))

WellFormedRange(r) == OfRangeForm(r) /\ RangeStart(r) <= RangeEnd(r)

\* s1 <= e2 and s2 <= e1
RangesMeet(r1, r2) ==
  /\ OfRangeForm(r1)
  /\ OfRangeForm(r2)
  /\ RangeStart(r1) <= RangeEnd(r2)
  /\ RangeStart(r2) <= RangeEnd(r1)

Elements(seq) == {seq[i] : i \in 1..Len(seq)}

(***************************************************************************)
(* C5                                                                      *)
(***************************************************************************)
ProfileList(profile, f) == IF f \in DOMAIN profile THEN profile[f] ELSE <<>>

Qualifies(user, event) ==
  /\ Elements(event.requiredSkills) \cap Elements(ProfileList(user.profile, "skills")) # {}
  /\ \E d \in Elements(event.eventDates) :
       \E a \in Elements(ProfileList(user.profile, "availability")) : RangesMeet(d, a)

\* result is the subsequence of evs, in order, of the events at the indices idx
IsSubsequenceAt(result, evs, idx) ==
  /\ Len(result) = Cardinality(idx)
  /\ \A i \in idx : result[Cardinality({j \in idx : j <= i})] = evs[i]

\* C5: Matching Events changes no state; for an unregistered email it answers
\* 404, and for a registered one 200 with exactly the events, in the
\* collection's order, that share a skill with the user's profile and have a
\* date range overlapping one of the user's availability ranges.
C5_MatchingEventsExact ==
  [][resp'.op = "matchingEvents"
       => (/\ users' = users /\ events' = events /\ notifications' = notifications
           /\ IF ~HasUser(users, resp'.req.email)
              THEN resp'.status = 404 /\ resp'.text = "User not found."
              ELSE /\ resp'.status = 200
                   /\ \E u \in 1..Len(users) :
                        /\ users[u].email = resp'.req.email
                        /\ IsSubsequenceAt(resp'.json, events,
                             {i \in 1..Len(events) : Qualifies(users[u], events[i])}))]_vars

\* of two events the second one alone is returned
C5_Witness ==
  /\ resp.op = "matchingEvents"
  /\ resp.status = 200
  /\ Len(events) = 2
  /\ Len(resp.json) = 1
  /\ resp.json[1] = events[2]
  /\ events[1] # events[2]

(***************************************************************************)
(* C6                                                                      *)
(***************************************************************************)
\* C6: for well-formed ranges the overlap test is true iff s1 <= e2 and
\* s2 <= e1, gives the same answer with the two ranges exchanged, and is true
\* when the ranges share only an endpoint.
C6_OverlapSymmetricInclusive ==
  (/\ probe.phase = "result"
   /\ WellFormedRange(probe.dates)
   /\ WellFormedRange(probe.dateRange))
    => (/\ probe.overlap <=> (/\ RangeStart(probe.dates) <= RangeEnd(probe.dateRange)
                              /\ RangeStart(probe.dateRange) <= RangeEnd(probe.dates))
        /\ probe.overlap = probe.swapped
        /\ RangeEnd(probe.dates) = RangeStart(probe.dateRange) => probe.overlap)

\* two ranges that share only an endpoint were tested
C6_Witness ==
  /\ probe.phase = "result"
  /\ WellFormedRange(probe.dates)
  /\ WellFormedRange(probe.dateRange)
  /\ RangeStart(probe.dates) < RangeEnd(probe.dates)
  /\ RangeEnd(probe.dates) = RangeStart(probe.dateRange)
  /\ RangeStart(probe.dateRange) < RangeEnd(probe.dateRange)
  /\ probe.overlap

(***************************************************************************)
(* C9                                                                      *)
(***************************************************************************)
Added(before, after) == SubSeq(after, Len(before) + 1, Len(after))

\* C9: a successful Create Event appends, after the notifications already
\* there, exactly one Notification 'New event: <name>' per registered user,
\* addressed to that user, and none for anyone else; a failed Create Event
\* and a Register append none.
C9_BroadcastPerUser ==
  [][/\ (resp'.op = "createEvent" /\ resp'.status = 201)
          => LET new == Added(notifications, notifications')
             IN /\ SubSeq(notifications', 1, Len(notifications)) = notifications
                /\ Len(new) = Len(users)
                /\ \A u \in 1..Len(users) :
                     Cardinality({k \in 1..Len(new) : new[k].email = users[u].email}) = 1
                /\ \A k \in 1..Len(new) :
                     /\ HasUser(users, new[k].email)
                     /\ new[k].message = "New event: " \o resp'.req.name
     /\ (resp'.op = "createEvent" /\ resp'.status # 201) => notifications' = notifications
     /\ resp'.op = "register" => notifications' = notifications]_vars

\* an event created while two users are registered
C9_Witness ==
  /\ resp.op = "createEvent"
  /\ resp.status = 201
  /\ Len(users) = 2
  /\ Len(notifications) = 2
  /\ notifications[1].email # notifications[2].email
  /\ notifications[1].message = "New event: " \o resp.req.name


(***************************************************************************)
(* C11: no operation removes or alters an existing HistoryEntry.  Across   *)
(* every step each user keeps its place and its volunteerHistory is either *)
(* unchanged or extended by one entry at the end; a DELETE /events/:id     *)
(* step leaves every user as it was; and GET /history/:email of a          *)
(* registered user answers 200 with the stored history, entries of deleted *)
(* events included.                                                        *)
(***************************************************************************)
FirstWithEmail(us, email, i) ==
  /\ i \in 1..Len(us)
  /\ us[i].email = email
  /\ \A j \in 1..(i - 1) : us[j].email # email

C11_HistoryAppendOnly ==
  [][/\ \A i \in 1..Len(users) :
          /\ i <= Len(users')
          /\ users'[i].email = users[i].email
          /\ \/ users'[i].volunteerHistory = users[i].volunteerHistory
             \/ IsAppend(users[i].volunteerHistory, users'[i].volunteerHistory)
     /\ resp'.op = "deleteEvent" => users' = users
     /\ (resp'.op = "getHistory" /\ HasUser(users, resp'.req.email))
          => /\ resp'.status = 200
             /\ users' = users
             /\ \E i \in 1..Len(users) :
                   /\ FirstWithEmail(users, resp'.req.email, i)
                   /\ resp'.json = users[i].volunteerHistory]_vars

\* GET /history returns the entry of an event that has since been deleted
C11_Witness ==
  /\ resp.op = "getHistory"
  /\ resp.status = 200
  /\ Len(resp.json) >= 1
  /\ ~HasEvent(events, resp.json[1].eventId)

(***************************************************************************)
(* C12: DELETE /notifications/:email/:message removes exactly one entry.   *)
(* When an entry with the given (email, message) exists the answer is 200  *)
(* and the list afterwards is the list before without the earliest such    *)
(* entry: the entries before it keep their places, the entries after it,   *)
(* later duplicates included, move up by one.  When none exists the answer *)
(* is 404 and the list is unchanged.  Users and events are never touched.  *)
(***************************************************************************)
IsPair(n, req) == n.email = req.email /\ n.message = req.message

WithoutEntry(before, after, k) ==
  /\ Len(after) = Len(before) - 1
  /\ \A j \in 1..(k - 1) : after[j] = before[j]
  /\ \A j \in k..Len(after) : after[j] = before[j + 1]

C12_DeleteEarliestOnly ==
  [][resp'.op = "deleteNotification"
       => /\ users' = users
          /\ events' = events
          /\ IF \E k \in 1..Len(notifications) : IsPair(notifications[k], resp'.req)
             THEN /\ resp'.status = 200
                  /\ \E k \in 1..Len(notifications) :
                        /\ IsPair(notifications[k], resp'.req)
                        /\ \A j \in 1..(k - 1) : ~IsPair(notifications[j], resp'.req)
                        /\ WithoutEntry(notifications, notifications', k)
             ELSE /\ resp'.status = 404
                  /\ notifications' = notifications]_vars

\* a delete that left a later duplicate of the pair behind another entry
C12_Witness ==
  /\ resp.op = "deleteNotification"
  /\ resp.status = 200
  /\ Len(notifications) = 2
  /\ ~IsPair(notifications[1], resp.req)
  /\ IsPair(notifications[2], resp.req)

(***************************************************************************)
(* C13                                                                     *)
(***************************************************************************)
StoreUnchanged ==
  users' = users /\ events' = events /\ notifications' = notifications

\* C13 as stated: a Match Volunteer call whose email is not the email of a
\* registered user, or whose eventId is not the id of an event in the
\* collection, answers NotFound (404) and changes no state.
C13_AsStated ==
  [][(/\ resp'.op = "matchVolunteer"
      /\ \/ ~HasUser(users, resp'.req.email)
         \/ ~HasEvent(events, resp'.req.eventId))
       => (resp'.status = 404 /\ StoreUnchanged)]_vars

\* C13 as amended: a Match Volunteer call that passes validation (an email of
\* email form and a non-empty eventId) answers 404 'User not found.' when no
\* user has the email, whether or not the event exists, and 404 'Event not
\* found.' when the user exists and no event in the collection has the id,
\* whether or not the user's history holds an entry for that id; a call
\* that fails validation answers 400 with the validation errors instead of
\* NotFound.  None of these changes any state.
C13_NotFoundInOrder ==
  [][resp'.op = "matchVolunteer"
       => LET req == resp'.req
          IN IF ~IsEmail(req.email) \/ req.eventId = ""
             THEN /\ resp'.status = 400
                  /\ resp'.text = ""
                  /\ Len(resp'.json) >= 1
                  /\ StoreUnchanged
             ELSE /\ ~HasUser(users, req.email)
                     => /\ resp'.status = 404
                        /\ resp'.text = "User not found."
                        /\ StoreUnchanged
                  /\ (HasUser(users, req.email) /\ ~HasEvent(events, req.eventId))
                     => /\ resp'.status = 404
                        /\ resp'.text = "Event not found."
                        /\ StoreUnchanged]_vars

\* 'Event not found.' for a deleted event the user was matched to before
C13_Witness ==
  /\ resp.op = "matchVolunteer"
  /\ resp.status = 404
  /\ resp.text = "Event not found."
  /\ HasEntry(users, resp.req.email, resp.req.eventId)
  /\ ~HasEvent(events, resp.req.eventId)

C15_EmptyProfileNoMatch ==
  [][resp'.op = "matchingEvents"
       => \A u \in 1..Len(users) :
            (/\ FirstWithEmail(users, resp'.req.email, u)
             /\ \/ ProfileList(users[u].profile, "skills") = <<>>
                \/ ProfileList(users[u].profile, "availability") = <<>>)
              => (resp'.status = 200 /\ resp'.json = <<>>)]_vars

\* a user with a required skill of a stored event and no availability
C15_Witness ==
  /\ resp.op = "matchingEvents"
  /\ resp.status = 200
  /\ resp.json = <<>>
  /\ \E u \in 1..Len(users), i \in 1..Len(events) :
        /\ users[u].email = resp.req.email
        /\ Elements(events[i].requiredSkills)
              \cap Elements(ProfileList(users[u].profile, "skills")) # {}
        /\ ProfileList(users[u].profile, "availability") = <<>>

(***************************************************************************)
(* C16: profile round trip and frame.  A successful POST /register stores  *)
(* the new user with the empty profile; a successful PUT /profile/:email   *)
(* makes that user's profile exactly the profile of the request, with      *)
(* nothing kept from the previous one, and changes nothing else: the       *)
(* user's email, password and volunteerHistory, every other user, the      *)
(* events and the notifications are as before; no other step changes any   *)
(* profile; and GET /profile/:email of a registered user answers 200 with  *)
(* the stored profile.  So Get Profile returns the empty profile until the *)
(* first successful update, and from then on the profile of the most       *)
(* recent successful update.                                               *)
(***************************************************************************)
C16_ProfileRoundTrip ==
  [][/\ (resp'.op = "register" /\ resp'.status = 201)
          => (IsAppend(users, users') /\ Last(users').profile = EmptyObject)
     /\ (resp'.op = "updateProfile" /\ resp'.status = 200)
          => /\ events' = events
             /\ notifications' = notifications
             /\ Len(users') = Len(users)
             /\ \E u \in 1..Len(users) :
                   /\ FirstWithEmail(users, resp'.req.email, u)
                   /\ users'[u].profile = resp'.req.profile
                   /\ users'[u].email = users[u].email
                   /\ users'[u].password = users[u].password
                   /\ users'[u].volunteerHistory = users[u].volunteerHistory
                   /\ \A i \in 1..Len(users) : i # u => users'[i] = users[i]
     /\ ~(resp'.op = "updateProfile" /\ resp'.status = 200)
          => \A i \in 1..Len(users) :
               i <= Len(users') /\ users'[i].profile = users[i].profile
     /\ (resp'.op = "getProfile" /\ HasUser(users, resp'.req.email))
          => /\ resp'.status = 200
             /\ StoreUnchanged
             /\ \E u \in 1..Len(users) :
                   /\ FirstWithEmail(users, resp'.req.email, u)
                   /\ resp'.json = users[u].profile]_vars

\* Get Profile returns a profile without skills for a user who has been
\* matched to an event, while the other user holds a profile with skills
C16_Witness ==
  /\ resp.op = "getProfile"
  /\ resp.status = 200
  /\ resp.json # EmptyObject
  /\ "skills" \notin DOMAIN resp.json
  /\ \E u, v \in 1..Len(users) :
        /\ users[u].email = resp.req.email
        /\ Len(users[u].volunteerHistory) = 1
        /\ v # u
        /\ "skills" \in DOMAIN users[v].profile

(***************************************************************************)
(* C17: DELETE /events/:id with an id some event of the collection has     *)
(* answers 200 and leaves the collection without one event of that id, the *)
(* other events in their order; with an id no event has it answers 404 and *)
(* leaves the collection as it is.  In both cases users, with their        *)
(* histories, and notifications are unchanged.                             *)
(***************************************************************************)
C17_DeleteEventFrame ==
  [][resp'.op = "deleteEvent"
       => /\ users' = users
          /\ notifications' = notifications
          /\ IF HasEvent(events, resp'.req.id)
             THEN /\ resp'.status = 200
                  /\ \E k \in 1..Len(events) :
                        /\ events[k].id = resp'.req.id
                        /\ WithoutEntry(events, events', k)
             ELSE /\ resp'.status = 404
                  /\ events' = events]_vars

\* the first of two events was deleted while a user holds its history entry
C17_Witness ==
  /\ resp.op = "deleteEvent"
  /\ resp.status = 200
  /\ Len(events) = 1
  /\ events[1].id # resp.req.id
  /\ \E u \in 1..Len(users) :
        \E k \in 1..Len(users[u].volunteerHistory) :
          users[u].volunteerHistory[k].eventId = resp.req.id
  /\ Len(notifications) >= 1

(***************************************************************************)
(* C18: users are never deleted and credentials never change.  Every step  *)
(* keeps each user, with its email and its password, at its place in the   *)
(* collection, and a successful POST /register leaves a user with the      *)
(* email and password of the request; so from then on POST /login with     *)
(* those credentials answers 200, and GET /profile, GET /history and       *)
(* GET /matching-events for that email answer 200, never 404.              *)
(***************************************************************************)
C18_UsersPersist ==
  [][/\ \A i \in 1..Len(users) :
          /\ i <= Len(users')
          /\ users'[i].email = users[i].email
          /\ users'[i].password = users[i].password
     /\ (resp'.op = "register" /\ resp'.status = 201)
          => CredentialsRegistered(users', resp'.req)
     /\ (resp'.op = "login" /\ CredentialsRegistered(users, resp'.req))
          => resp'.status = 200
     /\ (/\ resp'.op \in {"getProfile", "getHistory", "matchingEvents"}
         /\ HasUser(users, resp'.req.email))
          => resp'.status = 200]_vars

\* a login that succeeds after the user's profile was replaced, the user was
\* matched to an event and the event was deleted
C18_Witness ==
  /\ resp.op = "login"
  /\ resp.status = 200
  /\ \E u \in 1..Len(users) :
        /\ users[u].email = resp.req.email
        /\ users[u].profile # EmptyObject
        /\ Len(users[u].volunteerHistory) >= 1
        /\ ~HasEvent(events, users[u].volunteerHistory[1].eventId)

(***************************************************************************)
(* C19: requests do not interleave partial mutations.  Whatever the order  *)
(* in which the requests in flight arrive, pass the middleware and are     *)
(* served, of the Register requests for one email at most one is answered  *)
(* 201, and of the Match Volunteer requests for one (email, eventId) at    *)
(* most one is answered 200.                                               *)
(***************************************************************************)
Succeeded(slot) ==
  /\ slot.stage = "done"
  /\ slot.status = (IF slot.kind = "register" THEN 201 ELSE 200)

SameTarget(s, t) ==
  /\ s.kind = t.kind
  /\ s.req.email = t.req.email
  /\ s.kind = "matchVolunteer" => s.req.eventId = t.req.eventId

C19_AtMostOneSucceeds ==
  \A j, k \in 1..Len(inflight) :
    (j # k /\ SameTarget(inflight[j], inflight[k]) /\ Succeeded(inflight[j]))
      => ~Succeeded(inflight[k])

\* two Register requests for one email were in flight together: the one that
\* arrived second was served first and succeeded, the other was refused;
\* and a Match Volunteer request is still waiting
C19_Witness ==
  /\ Len(inflight) = 3
  /\ inflight[1].kind = "register" /\ inflight[1].stage = "done" /\ inflight[1].status = 400
  /\ inflight[2].kind = "register" /\ inflight[2].stage = "done" /\ inflight[2].status = 201
  /\ inflight[3].kind = "matchVolunteer" /\ inflight[3].stage = "ready"

(***************************************************************************)
(* C20: POST /match-volunteer does not consult the matching filter.  A     *)
(* request that passes validation is answered 200 exactly when a user has  *)
(* the email, an event of the collection has the eventId, and the user's   *)
(* history holds no entry with that eventId; the user's skills and         *)
(* availability and the event's required skills and dates play no part.    *)
(***************************************************************************)
C20_MatchIgnoresEngine ==
  [][(/\ resp'.op = "matchVolunteer"
      /\ IsEmail(resp'.req.email)
      /\ resp'.req.eventId # "")
       => (resp'.status = 200
             <=> /\ HasUser(users, resp'.req.email)
                 /\ HasEvent(events, resp'.req.eventId)
                 /\ ~HasEntry(users, resp'.req.email, resp'.req.eventId))]_vars

\* a successful match of a user to an event that does not qualify for them
C20_Witness ==
  /\ resp.op = "matchVolunteer"
  /\ resp.status = 200
  /\ \E u \in 1..Len(users), e \in 1..Len(events) :
        /\ users[u].email = resp.req.email
        /\ events[e].id = resp.req.eventId
        /\ ~Qualifies(users[u], events[e])
====
